---- MODULE Spec2Model ----
(***************************************************************************)
(* Model of the scheduling and routine-orchestration engine of             *)
(* Social-Agent (src/internal/scheduler.go) together with the Agent that   *)
(* wraps the content generator (src/internal/agent.go).                    *)
(*                                                                         *)
(* The trigger engine (robfig/cron) is modelled by its job table           *)
(* (entries) and its running flag; a firing starts a fresh goroutine that  *)
(* executes one routine.  A routine advances one collaborator call at a    *)
(* time, because every collaborator call is a blocking network call at     *)
(* which other goroutines can interleave.                                  *)
(*                                                                         *)
(* Beside the scheduler the module holds the program around it (main, the  *)
(* shutdown signal, the Start context), the generator's truncation, the    *)
(* Bluesky clients' reading of the response status, and the Follow routine *)
(* and token cache of the earlier Reddit-sourced scheduler                 *)
(* (src/unnamed/part_008, part_011).                                       *)
(***************************************************************************)
EXTENDS Integers, Sequences, FiniteSets, TLC

VARIABLES
    config,       \* SchedulerConfig held by the Scheduler
    agentTheme,   \* Agent.theme
    feed,         \* what the content source currently serves
    timeline,     \* what the destination lists as recent post identifiers
    now,          \* wall clock read by time.Now()
    entries,      \* cron job table
    cronRunning,  \* cron engine running flag
    caller,       \* "idle", "inStart" while a test-mode Start is executing,
                  \* or "exited" once main has returned
    signalled,    \* a shutdown signal has been delivered to sigChan
    startCount,   \* number of Start calls made
    startResult,  \* result of the last returned Start: "none", "nil", "err"
    lastCall,     \* the caller's latest call: "none", "Start", "Stop", "StopAgain"
    inv,          \* routine invocations in progress, by invocation id
    nextId,       \* next invocation id
    history,      \* routines begun and ended by a test-mode Start, in order
    firings,      \* number of trigger firings dispatched so far
    failed,       \* job-table positions whose firing ended after logging an error
    upstream,     \* text of the generation service's latest response
    returned,     \* what GeminiGenerator.GeneratePost returned for it
    wire,         \* the destination's latest answer and what the client made of it
    reddit,       \* the token cache of the shared RedditClient and who used it
    ctxCancelled  \* the context main handed to Start has been cancelled

vars == <<config, agentTheme, feed, timeline, now, entries, cronRunning, caller,
          signalled, startCount, startResult, lastCall, inv, nextId, history,
          firings, failed, upstream, returned, wire, reddit,
          ctxCancelled>>

----------------------------------------------------------------------------
(* Bounds of the model *)

MaxFeed == 3          \* longest list the content source serves
MaxTimeline == 2      \* longest list of recent post identifiers
MaxFirings == 2       \* trigger firings explored
MaxCandidates == 5    \* longest list explored for the age filter

(* Program constants *)

HoursPerDay == 24
MinutesPerHour == 60
FollowHourBase == 9
FollowHourSpan == 10
LikeHourBase == 10
LikeHourSpan == 9
PostQueryLimit == 10
FollowQueryLimit == 20
LikeListLimit == 50
TruncateThreshold == 500
PlatformLimit == 300
EllipsisLen == 3

(* Time is counted in quarter days. *)
DayLen == 4

----------------------------------------------------------------------------
(* Input alphabets *)

Themes == {"fools", "mondays"}
Texts == {"T1", "T2"}
Authors == {"", "alice", "bob", "unknown"}
PostIDs == {"p1", "p2"}
\* The clock stands in the third day; candidates were created more than a
\* day ago, exactly a day ago, earlier on the same day, or slightly ahead of
\* the clock.
DefaultNow == 2 * DayLen + 2
NowChoices == {DefaultNow, DefaultNow + 1}
CreatedAtChoices == {DefaultNow - DayLen - 1, DefaultNow - DayLen,
                     DefaultNow - 1, DefaultNow + 2}

NoPost == [ID |-> 0, Author |-> "", CreatedAt |-> 0]

\* A text is described by its length, the positions (from 0) of its space
\* characters, and whether it ends in the ellipsis marker.
MkText(len, spaces) == [len |-> len, spaces |-> spaces, tail |-> ""]

NoText == [len |-> -1, spaces |-> {}, tail |-> ""]

\* HTTP statuses the destination may answer with.
StatusCodes == {200, 201, 204, 302, 400, 401, 429, 500, 503}

\* The two Bluesky clients of the repository: src/internal/bluesky.go and
\* src/internal/social/bluesky/client.go.
Clients == {"internal", "social"}

Answer(op, client, status, err) ==
    [op |-> op, client |-> client, status |-> status, err |-> err]

NoAnswer == Answer("none", "none", <<>>, FALSE)

\* NewRedditClient: no token yet.  Beside the accessToken field (0 for the
\* empty string, otherwise the number of the request that obtained it) the
\* record notes which invocations have read the field, which have written
\* it, which are waiting for the token endpoint and which have passed
\* ensureAuthenticated.
NewRedditClient ==
    [accessToken |-> 0, readers |-> {}, writers |-> {}, asked |-> {},
     ready |-> {}]

\* Lengths around the two limits of the generator, and space positions
\* around the cut.
TextLens == {0, 1, 200, 299, 300, 301, 320, 499, 500, 501, 600}
SpaceSpots == {0, 150, 297, 298, 299, 300, 450}

TextSamples ==
    UNION {{MkText(n, sp) : sp \in SUBSET {i \in SpaceSpots : i < n}} :
           n \in TextLens}

SeqsUpTo(S, n) == UNION {[1..k -> S] : k \in 0..n}

----------------------------------------------------------------------------
(* math/rand *)

\* Variant: the upper end of the range is included.
IntnInclusive(n) == 0..n

Intn(n) == 0..(n - 1)

\* The draws of one Start are explored along two sample streams: every draw
\* at its least value, or every draw at its greatest value.
RandStreams == {"low", "high"}

Draw(stream, n) ==
    IF stream = "low" THEN 0 ELSE n - 1

----------------------------------------------------------------------------
(* Construction: main builds the Agent and the SchedulerConfig from the    *)
(* same loaded configuration, then NewScheduler copies the config.         *)

MkConfig(hours, follow, like, age, theme, test) ==
    [PostingHours |-> hours, FollowUsersPerDay |-> follow,
     LikePostsPerDay |-> like, MaxContentAgeDays |-> age,
     PostContentTheme |-> theme, TestMode |-> test]

MkFeed(authors, times) ==
    [i \in 1..Len(authors) |->
        [ID |-> i, Author |-> authors[i], CreatedAt |-> times[i]]]

NewScheduler(cfg, theme, f, t, clock) ==
    /\ config = cfg
    /\ agentTheme = theme
    /\ feed = f
    /\ timeline = t
    /\ now = clock
    /\ entries = <<>>
    /\ cronRunning = FALSE
    /\ caller = "idle"
    /\ signalled = FALSE
    /\ startCount = 0
    /\ startResult = "none"
    /\ lastCall = "none"
    /\ inv = <<>>
    /\ nextId = 1
    /\ history = <<>>
    /\ firings = 0
    /\ failed = {}
    /\ upstream = NoText
    /\ returned = NoText
    /\ wire = NoAnswer
    /\ reddit = NewRedditClient
    /\ ctxCancelled = FALSE

----------------------------------------------------------------------------
(* Trigger engine: spec formatting, parsing and the job table *)

\* Variant: the Sprintf arguments are passed hour first.
CronSpecHourFirst(minute, hour) == <<hour, minute>>

\* fmt.Sprintf("%d %d * * *", minute, hour): minute is the first field.
CronSpec(minute, hour) == <<minute, hour>>

\* The standard five-field parser: field 1 is the minute, field 2 the hour.
ParseOK(spec) ==
    /\ spec[1] \in 0..(MinutesPerHour - 1)
    /\ spec[2] \in 0..(HoursPerDay - 1)

MkEntry(activity, spec) ==
    [activity |-> activity, minute |-> spec[1], hour |-> spec[2]]

\* cron.AddFunc: appends an entry, or fails on a malformed spec.
AddFunc(reg, activity, spec) ==
    IF ParseOK(spec)
    THEN [es |-> Append(reg.es, MkEntry(activity, spec)), err |-> FALSE]
    ELSE [es |-> reg.es, err |-> TRUE]

\* The loop over config.PostingHours; it returns at the first failure.
RECURSIVE AddPosts(_, _, _, _)
AddPosts(reg, hours, mins, i) ==
    IF i > Len(hours) \/ reg.err
    THEN reg
    ELSE AddPosts(AddFunc(reg, "Post", CronSpec(mins[i], hours[i])),
                  hours, mins, i + 1)

\* Everything Start registers, in order, stopping at the first error.
Register(es, hours, mins, fh, fm, lh, lm) ==
    LET r1 == AddPosts([es |-> es, err |-> FALSE], hours, mins, 1)
        r2 == IF r1.err THEN r1
              ELSE AddFunc(r1, "Follow", CronSpec(fm, FollowHourBase + fh))
        r3 == IF r2.err THEN r2
              ELSE AddFunc(r2, "Like", CronSpec(lm, LikeHourBase + lh))
    IN r3

\* Variant: Start logs the registration error and starts the engine anyway.
RunningAfterStartAnyway(running, err) == TRUE

\* cron.Start is reached only when every registration succeeded.
RunningAfterStart(running, err) == IF err THEN running ELSE TRUE

\* cron.Stop
RunningAfterStop(running) == FALSE

\* Variant: triggers keep coming due after the engine was stopped.
CanFireStopped(running, es, e) == e \in 1..Len(es)

\* Variant: the engine runs jobs inline, one at a time.
CanFireSerial(running, es, e) ==
    running /\ e \in 1..Len(es) /\ DOMAIN inv = {}

\* The engine dispatches jobs only while it runs.
CanFire(running, es, e) == running /\ e \in 1..Len(es)

----------------------------------------------------------------------------
(* Routine invocations *)

NewInvocation(routine, origin, ctx, entry) ==
    [routine |-> routine, origin |-> origin, ctx |-> ctx, entry |-> entry,
     after |-> failed, pc |-> "query", posts |-> <<>>, recent |-> <<>>, selected |-> NoPost,
     cutoff |-> 0, text |-> "", pool |-> <<>>, count |-> 0, i |-> 0,
     calls |-> <<>>, outcome |-> "running"]

\* A collaborator call: operation, string argument, post argument, limit
\* argument, whether it succeeded, and the string it returned.
Call(op, arg, post, n, ok, ret) ==
    [op |-> op, arg |-> arg, post |-> post, n |-> n, ok |-> ok, ret |-> ret]

Begin(routine) == [ev |-> "begin", routine |-> routine, outcome |-> "running"]

\* What a finished routine leaves behind: whether it logged an error.
Status(outcome) ==
    IF outcome \in {"posted", "completed"} THEN "ok" ELSE "error"

End(rec) ==
    [ev |-> "end", routine |-> rec.routine, outcome |-> Status(rec.outcome)]

Spawn(routine, origin, ctx, entry) ==
    /\ inv' = inv @@ (nextId :> NewInvocation(routine, origin, ctx, entry))
    /\ nextId' = nextId + 1

Finish(rec, outcome) == [rec EXCEPT !.pc = "done", !.outcome = outcome]

At(id, routine, pc) ==
    /\ id \in DOMAIN inv
    /\ inv[id].routine = routine
    /\ inv[id].pc = pc

----------------------------------------------------------------------------
(* Scheduler.Start and Scheduler.Stop *)

\* Variant: Start calls the Like routine before the Follow routine.
TestOrderSwapped == <<"Post", "Like", "Follow">>

\* Test mode: Start runs the three routines on the calling thread.
TestOrder == <<"Post", "Follow", "Like">>

StartTest(limit) ==
    /\ config.TestMode
    /\ caller = "idle"
    /\ startCount < limit
    /\ startCount' = startCount + 1
    /\ caller' = "inStart"
    /\ Spawn(TestOrder[1], "test", "start", 1)
    /\ history' = Append(history, Begin(TestOrder[1]))
    /\ lastCall' = "Start"
    /\ UNCHANGED <<config, agentTheme, ctxCancelled, reddit, wire, upstream,
                   returned, signalled, feed, timeline, now, entries,
                   cronRunning, startResult, firings, failed>>

\* Variant: after the routines the test-mode Start goes on to start the
\* engine.
RunningAfterTestRunStarts(running) == TRUE

\* The test-mode Start returns nil before the registrations and before
\* cron.Start.
RunningAfterTestRun(running) == running

\* A routine called by the test-mode Start has returned: call the next one,
\* or return nil after the last.
TestAdvance(id) ==
    /\ id \in DOMAIN inv
    /\ inv[id].origin = "test"
    /\ inv[id].pc = "done"
    /\ LET k == inv[id].entry
           rest == [j \in DOMAIN inv \ {id} |-> inv[j]]
           ended == Append(history, End(inv[id]))
       IN IF k < Len(TestOrder)
          THEN /\ inv' = rest @@ (nextId :> NewInvocation(TestOrder[k + 1],
                                                "test", "start", k + 1))
               /\ nextId' = nextId + 1
               /\ history' = Append(ended, Begin(TestOrder[k + 1]))
               /\ UNCHANGED <<caller, startResult, cronRunning>>
          ELSE /\ inv' = rest
               /\ history' = ended
               /\ caller' = "idle"
               /\ startResult' = "nil"
               /\ cronRunning' = RunningAfterTestRun(cronRunning)
               /\ UNCHANGED nextId
    /\ UNCHANGED <<config, agentTheme, ctxCancelled, reddit, wire, upstream,
                   returned, signalled, lastCall, feed, timeline, now,
                   entries, startCount, firings, failed>>

\* The draws of one Start along a sample stream: one minute per posting
\* hour, then hour offset and minute of the Follow trigger and of the Like
\* trigger.
StreamDraws(st, nposts) ==
    [post |-> [k \in 1..nposts |-> Draw(st, MinutesPerHour)],
     fh |-> Draw(st, FollowHourSpan), fm |-> Draw(st, MinutesPerHour),
     lh |-> Draw(st, LikeHourSpan), lm |-> Draw(st, MinutesPerHour)]

\* A sample stream in which one draw takes every value rand.Intn can give.
SampleDraws(nposts) ==
    UNION {LET d == StreamDraws(st, nposts) IN
           {[d EXCEPT !.post = [k \in 1..nposts |-> v]] : v \in Intn(MinutesPerHour)}
           \cup {[d EXCEPT !.fh = v] : v \in Intn(FollowHourSpan)}
           \cup {[d EXCEPT !.fm = v] : v \in Intn(MinutesPerHour)}
           \cup {[d EXCEPT !.lh = v] : v \in Intn(LikeHourSpan)}
           \cup {[d EXCEPT !.lm = v] : v \in Intn(MinutesPerHour)}
           : st \in RandStreams}

\* Continuous mode with the draws d: register every trigger, then start the
\* engine.
StartWith(limit, d) ==
    /\ ~config.TestMode
    /\ caller = "idle"
    /\ startCount < limit
    /\ LET r == Register(entries, config.PostingHours, d.post,
                         d.fh, d.fm, d.lh, d.lm)
       IN /\ entries' = r.es
          /\ cronRunning' = RunningAfterStart(cronRunning, r.err)
          /\ startResult' = IF r.err THEN "err" ELSE "nil"
    /\ startCount' = startCount + 1
    /\ lastCall' = "Start"
    /\ UNCHANGED <<config, agentTheme, ctxCancelled, reddit, wire, upstream,
                   returned, signalled, feed, timeline, now, caller, inv,
                   nextId, history, firings, failed>>

\* Continuous mode: register every trigger, then start the engine.
StartContinuous(limit) ==
    \E st \in RandStreams :
        StartWith(limit, StreamDraws(st, Len(config.PostingHours)))

\* The same Start, explored over every value of each single draw.
StartSampled(limit) ==
    \E d \in SampleDraws(Len(config.PostingHours)) : StartWith(limit, d)

\* Variant: the routines in progress observe the stop and give up.
InFlightAfterStopCancelled(invs) ==
    [id \in DOMAIN invs |->
        IF invs[id].pc = "done" THEN invs[id]
        ELSE [invs[id] EXCEPT !.pc = "done", !.outcome = "cancelled"]]

\* cron.Stop leaves running jobs alone, and the routines never look at the
\* context they are handed.
InFlightAfterStop(invs) == invs

\* Variant: Stop signals the engine's run loop unconditionally, and so
\* blocks when no run loop is there to receive.
CanStopRunningOnly(running) == running

\* cron.Stop signals the run loop only if the engine runs; otherwise it
\* returns at once.  Scheduler.Stop does not wait on the context it returns.
CanStop(running) == TRUE

Stop ==
    /\ caller = "idle"
    /\ CanStop(cronRunning)
    /\ cronRunning' = RunningAfterStop(cronRunning)
    /\ lastCall' = IF lastCall \in {"Stop", "StopAgain"}
                   THEN "StopAgain" ELSE "Stop"
    /\ inv' = InFlightAfterStop(inv)
    /\ UNCHANGED <<config, agentTheme, ctxCancelled, reddit, wire, upstream,
                   returned, signalled, feed, timeline, now, entries, caller,
                   startCount, startResult, nextId, history, firings,
                   failed>>

\* Variant: the registered closures pass on the context Start was given.
JobContextInherited(startCtx) == startCtx

\* The registered closures call the routine with context.Background().
JobContext(startCtx) == "background"

\* A trigger comes due: the engine runs the job in a goroutine of its own,
\* with a fresh background context.  A trigger comes due once a day; the
\* invocation it started the day before is taken to have returned.
Fire(e) ==
    /\ CanFire(cronRunning, entries, e)
    /\ firings < MaxFirings
    /\ \A id \in DOMAIN inv : inv[id].entry # e
    /\ Spawn(entries[e].activity, "cron", JobContext("start"), e)
    /\ firings' = firings + 1
    /\ UNCHANGED <<config, agentTheme, ctxCancelled, reddit, wire, upstream,
                   returned, signalled, lastCall, feed, timeline, now,
                   entries, cronRunning, caller, startCount, startResult,
                   history, failed>>

\* Variant: a routine that logged an error shuts the engine down.
ReturnStopsOnError(id) ==
    /\ id \in DOMAIN inv
    /\ inv[id].origin = "cron"
    /\ inv[id].pc = "done"
    /\ inv' = [j \in DOMAIN inv \ {id} |-> inv[j]]
    /\ failed' = IF Status(inv[id].outcome) = "error"
                 THEN failed \cup {inv[id].entry} ELSE failed
    /\ cronRunning' = (cronRunning /\ Status(inv[id].outcome) = "ok")
    /\ UNCHANGED <<config, agentTheme, ctxCancelled, reddit, wire, upstream,
                   returned, signalled, lastCall, feed, timeline, now,
                   entries, caller, startCount, startResult, nextId, history,
                   firings>>

\* A fired routine has returned: its goroutine ends.
Return(id) ==
    /\ id \in DOMAIN inv
    /\ inv[id].origin = "cron"
    /\ inv[id].pc = "done"
    /\ inv' = [j \in DOMAIN inv \ {id} |-> inv[j]]
    /\ failed' = IF Status(inv[id].outcome) = "error"
                 THEN failed \cup {inv[id].entry} ELSE failed
    /\ UNCHANGED <<config, agentTheme, ctxCancelled, reddit, wire, upstream,
                   returned, signalled, lastCall, feed, timeline, now,
                   entries, cronRunning, caller, startCount, startResult,
                   nextId, history, firings>>

----------------------------------------------------------------------------
(* postRoutine *)

\* time.Now().AddDate(0, 0, -MaxContentAgeDays)
CutoffTime(t, days) == t - days * DayLen

\* Variant: the comparison admits a post created exactly at the cutoff.
AfterOrEqual(t, u) == t >= u

\* Time.After
After(t, u) == t > u

\* The filter loop: keeps, in order, the posts created after the cutoff.
RecentPosts(posts, cutoff) ==
    SelectSeq(posts, LAMBDA p : After(p.CreatedAt, cutoff))

\* Query the source, filter by age and pick one recent post.
PostQuery(id) ==
    /\ At(id, "Post", "query")
    /\ \E ok \in BOOLEAN :
         LET rec == [inv[id] EXCEPT !.calls = Append(@,
                        Call("QueryWorkRantTweets", "", 0, PostQueryLimit, ok, ""))]
             cutoff == CutoffTime(now, config.MaxContentAgeDays)
             recent == RecentPosts(feed, cutoff)
         IN IF ~ok
            THEN inv' = [inv EXCEPT ![id] = Finish(rec, "queryFailed")]
            ELSE IF Len(feed) = 0
            THEN inv' = [inv EXCEPT ![id] =
                            Finish([rec EXCEPT !.posts = feed], "noPosts")]
            ELSE IF Len(recent) = 0
            THEN inv' = [inv EXCEPT ![id] =
                            Finish([rec EXCEPT !.posts = feed,
                                               !.cutoff = cutoff], "noRecent")]
            ELSE \E idx \in Intn(Len(recent)) :
                   inv' = [inv EXCEPT ![id] =
                            [rec EXCEPT !.posts = feed, !.cutoff = cutoff,
                                        !.recent = recent,
                                        !.selected = recent[idx + 1],
                                        !.pc = "generate"]]
    /\ UNCHANGED <<config, agentTheme, ctxCancelled, reddit, wire, upstream,
                   returned, signalled, lastCall, feed, timeline, now,
                   entries, cronRunning, caller, startCount, startResult,
                   nextId, history, firings, failed>>

\* Agent.Generate: hands the post and the Agent's theme to the generator.
GenerateCall(post, theme, ok, text) ==
    Call("GeneratePost", theme, post.ID, 0, ok, text)

\* Variant: the error branch of the generation call does not return.
PostGenerateNoReturn(id) ==
    /\ At(id, "Post", "generate")
    /\ \E ok \in BOOLEAN, text \in Texts :
         inv' = [inv EXCEPT ![id] =
                 [@ EXCEPT !.calls = Append(@,
                           GenerateCall(inv[id].selected, agentTheme, ok,
                                        IF ok THEN text ELSE "")),
                           !.text = IF ok THEN text ELSE "", !.pc = "publish"]]
    /\ UNCHANGED <<config, agentTheme, ctxCancelled, reddit, wire, upstream,
                   returned, signalled, lastCall, feed, timeline, now,
                   entries, cronRunning, caller, startCount, startResult,
                   nextId, history, firings, failed>>


\* The routine's context reaches one call only, GenerateContent, which
\* fails once that context is cancelled.  The background context never is.
Cancelled(ctx) == ctx = "start" /\ ctxCancelled

PostGenerate(id) ==
    /\ At(id, "Post", "generate")
    /\ \/ inv' = [inv EXCEPT ![id] =
                    Finish([@ EXCEPT !.calls = Append(@,
                              GenerateCall(inv[id].selected, agentTheme, FALSE, ""))],
                           "generateFailed")]
       \/ \E text \in Texts :
            /\ ~Cancelled(inv[id].ctx)
            /\ inv' = [inv EXCEPT ![id] =
                    [@ EXCEPT !.calls = Append(@,
                              GenerateCall(inv[id].selected, agentTheme, TRUE, text)),
                              !.text = text, !.pc = "publish"]]
    /\ UNCHANGED <<config, agentTheme, ctxCancelled, reddit, wire, upstream,
                   returned, signalled, lastCall, feed, timeline, now,
                   entries, cronRunning, caller, startCount, startResult,
                   nextId, history, firings, failed>>

\* Variant: the routine publishes an empty text instead of the generated one.
PublishCallEmpty(text, ok) == Call("CreatePost", "", 0, 0, ok, "")

\* socialMedia.CreatePost(generatedPost.Content)
PublishCall(text, ok) == Call("CreatePost", text, 0, 0, ok, "")

\* The invocations after invocation id has called CreatePost: an error ends
\* the routine with an error log, anything else with "successfully posted".
Published(id, ok) ==
    [inv EXCEPT ![id] =
        Finish([@ EXCEPT !.calls = Append(@, PublishCall(inv[id].text, ok))],
               IF ok THEN "posted" ELSE "publishFailed")]

PostPublish(id) ==
    /\ At(id, "Post", "publish")
    /\ \E ok \in BOOLEAN : inv' = Published(id, ok)
    /\ UNCHANGED <<config, agentTheme, ctxCancelled, reddit, wire, upstream,
                   returned, signalled, lastCall, feed, timeline, now,
                   entries, cronRunning, caller, startCount, startResult,
                   nextId, history, firings, failed>>

----------------------------------------------------------------------------
(* followRoutine and likeRoutine *)

\* The authorMap loop: first occurrence of every non-empty author, in order.
RECURSIVE DistinctAuthors(_, _, _)
DistinctAuthors(posts, i, acc) ==
    IF i > Len(posts)
    THEN acc
    ELSE LET a == posts[i].Author
         IN IF a # "" /\ \A k \in 1..Len(acc) : acc[k] # a
            THEN DistinctAuthors(posts, i + 1, Append(acc, a))
            ELSE DistinctAuthors(posts, i + 1, acc)

\* Variant: the count is not clamped to the pool.
ClampNone(configured, n) == configured

\* count := configured; if count > len(pool) { count = len(pool) }
Clamp(configured, n) == IF configured > n THEN n ELSE configured

\* Variant: the drawn element stays in the pool.
RemoveAtKeeps(pool, idx) == pool

\* append(pool[:idx], pool[idx+1:]...), idx counted from 0
RemoveAt(pool, idx) ==
    [k \in 1..(Len(pool) - 1) |-> IF k <= idx THEN pool[k] ELSE pool[k + 1]]

\* Variant: a failed call ends the loop.
IterateAbortsOnFailure(rec, op, idx, ok) ==
    LET item == rec.pool[idx + 1]
        called == Append(rec.calls, Call(op, item, 0, 0, ok, ""))
        logged == IF ok THEN Append(called, Call("Sleep", "", 0, 0, TRUE, ""))
                  ELSE called
        r == [rec EXCEPT !.pool = RemoveAt(rec.pool, idx), !.calls = logged,
                         !.i = rec.i + 1]
    IN IF r.i < r.count /\ ok THEN r ELSE Finish(r, "completed")

\* One iteration of a fan-out loop: draw, remove, call, sleep on success.
Iterate(rec, op, idx, ok) ==
    LET item == rec.pool[idx + 1]
        called == Append(rec.calls, Call(op, item, 0, 0, ok, ""))
        logged == IF ok THEN Append(called, Call("Sleep", "", 0, 0, TRUE, ""))
                  ELSE called
        r == [rec EXCEPT !.pool = RemoveAt(rec.pool, idx), !.calls = logged,
                         !.i = rec.i + 1]
    IN IF r.i < r.count THEN r ELSE Finish(r, "completed")

\* Enter a fan-out loop over pool with the clamped count.
EnterLoop(rec, pool, configured, pc) ==
    LET n == Clamp(configured, Len(pool))
        r == [rec EXCEPT !.pool = pool, !.count = n, !.i = 0, !.pc = pc]
    IN IF 0 < n THEN r ELSE Finish(r, "completed")

FollowQuery(id) ==
    /\ At(id, "Follow", "query")
    /\ \E ok \in BOOLEAN :
         LET rec == [inv[id] EXCEPT !.calls = Append(@,
                        Call("QueryWorkRantTweets", "", 0, FollowQueryLimit, ok, ""))]
             authors == DistinctAuthors(feed, 1, <<>>)
         IN IF ~ok
            THEN inv' = [inv EXCEPT ![id] = Finish(rec, "queryFailed")]
            ELSE IF Len(authors) = 0
            THEN inv' = [inv EXCEPT ![id] =
                            Finish([rec EXCEPT !.posts = feed], "noAuthors")]
            ELSE inv' = [inv EXCEPT ![id] =
                            EnterLoop([rec EXCEPT !.posts = feed], authors,
                                      config.FollowUsersPerDay, "follow")]
    /\ UNCHANGED <<config, agentTheme, ctxCancelled, reddit, wire, upstream,
                   returned, signalled, lastCall, feed, timeline, now,
                   entries, cronRunning, caller, startCount, startResult,
                   nextId, history, firings, failed>>

FollowStep(id) ==
    /\ At(id, "Follow", "follow")
    /\ IF Len(inv[id].pool) = 0
       THEN inv' = [inv EXCEPT ![id] = Finish(@, "panic")]
       ELSE \E idx \in Intn(Len(inv[id].pool)), ok \in BOOLEAN :
              inv' = [inv EXCEPT ![id] = Iterate(@, "FollowUser", idx, ok)]
    /\ UNCHANGED <<config, agentTheme, ctxCancelled, reddit, wire, upstream,
                   returned, signalled, lastCall, feed, timeline, now,
                   entries, cronRunning, caller, startCount, startResult,
                   nextId, history, firings, failed>>

LikeList(id) ==
    /\ At(id, "Like", "query")
    /\ \E ok \in BOOLEAN :
         LET rec == [inv[id] EXCEPT !.calls = Append(@,
                        Call("GetRecentPosts", "", 0, LikeListLimit, ok, ""))]
         IN IF ~ok
            THEN inv' = [inv EXCEPT ![id] = Finish(rec, "listFailed")]
            ELSE IF Len(timeline) = 0
            THEN inv' = [inv EXCEPT ![id] = Finish(rec, "noPosts")]
            ELSE inv' = [inv EXCEPT ![id] =
                            EnterLoop(rec, timeline,
                                      config.LikePostsPerDay, "like")]
    /\ UNCHANGED <<config, agentTheme, ctxCancelled, reddit, wire, upstream,
                   returned, signalled, lastCall, feed, timeline, now,
                   entries, cronRunning, caller, startCount, startResult,
                   nextId, history, firings, failed>>

LikeStep(id) ==
    /\ At(id, "Like", "like")
    /\ IF Len(inv[id].pool) = 0
       THEN inv' = [inv EXCEPT ![id] = Finish(@, "panic")]
       ELSE \E idx \in Intn(Len(inv[id].pool)), ok \in BOOLEAN :
              inv' = [inv EXCEPT ![id] = Iterate(@, "LikePost", idx, ok)]
    /\ UNCHANGED <<config, agentTheme, ctxCancelled, reddit, wire, upstream,
                   returned, signalled, lastCall, feed, timeline, now,
                   entries, cronRunning, caller, startCount, startResult,
                   nextId, history, firings, failed>>


----------------------------------------------------------------------------
(* Initial states and specification *)

DefaultHours == <<8>>
DefaultAuthors == <<"alice", "bob">>
DefaultTimes == <<DefaultNow - 1, DefaultNow - DayLen - 1>>
DefaultTimeline == <<"p1", "p2">>
AgeChoices == {0, 1}
CountChoices == {-1, 0, 2, 5}
HoursChoices == {<<8>>, <<8, 18>>, <<25>>, <<8, 25>>, <<-1, 8>>}

Constant(n, v) == [k \in 1..n |-> v]

\* One-shot runs (-test-mode): one input dimension varies at a time.
InitTest ==
    \/ \E times \in SeqsUpTo(CreatedAtChoices, MaxCandidates), age \in AgeChoices :
         NewScheduler(MkConfig(DefaultHours, 0, 0, age, "fools", TRUE), "fools",
                      MkFeed(Constant(Len(times), "alice"), times),
                      DefaultTimeline, DefaultNow)
    \/ \E authors \in SeqsUpTo(Authors, MaxFeed), n \in CountChoices :
         NewScheduler(MkConfig(DefaultHours, n, 0, 1, "fools", TRUE), "fools",
                      MkFeed(authors, Constant(Len(authors), DefaultNow - DayLen - 1)),
                      DefaultTimeline, DefaultNow)
    \/ \E ids \in SeqsUpTo(PostIDs, MaxTimeline), n \in CountChoices :
         NewScheduler(MkConfig(DefaultHours, 0, n, 1, "fools", TRUE), "fools",
                      <<>>, ids, DefaultNow)
    \/ \E theme \in Themes, clock \in NowChoices :
         NewScheduler(MkConfig(DefaultHours, 2, 1, 1, theme, TRUE), theme,
                      MkFeed(DefaultAuthors, DefaultTimes), DefaultTimeline,
                      clock)

\* Continuous runs: the posting hours vary.
InitContinuous ==
    \E hours \in HoursChoices :
         NewScheduler(MkConfig(hours, 2, 1, 1, "fools", FALSE), "fools",
                      MkFeed(DefaultAuthors, DefaultTimes), DefaultTimeline,
                      DefaultNow)

\* The long-running program: main calls Start once; Start registers the
\* triggers and the engine fires them.
Init == InitContinuous

Next ==
    \/ StartContinuous(1)
    \/ Stop
    \/ \E e \in 1..Len(entries) : Fire(e)
    \/ \E id \in DOMAIN inv :
         \/ Return(id)
         \/ PostQuery(id)
         \/ PostGenerate(id)
         \/ PostPublish(id)
         \/ FollowQuery(id)
         \/ FollowStep(id)
         \/ LikeList(id)
         \/ LikeStep(id)

Spec == Init /\ [][Next]_vars

\* The one-shot program: main calls Start once; Start runs the routines.
NextTest ==
    \/ StartTest(1)
    \/ Stop
    \/ \E id \in DOMAIN inv :
         \/ TestAdvance(id)
         \/ PostQuery(id)
         \/ PostGenerate(id)
         \/ PostPublish(id)
         \/ FollowQuery(id)
         \/ FollowStep(id)
         \/ LikeList(id)
         \/ LikeStep(id)

SpecTest == InitTest /\ [][NextTest]_vars

\* One step of the routine invocation id, whichever routine it runs.
RoutineStep(id) ==
    \/ PostQuery(id)
    \/ PostGenerate(id)
    \/ PostPublish(id)
    \/ FollowQuery(id)
    \/ FollowStep(id)
    \/ LikeList(id)
    \/ LikeStep(id)

\* Every collaborator call returns (the HTTP clients time out) and every
\* pacing sleep ends, so a routine goroutine that can take a step takes it.
Fairness == \A id \in 1..MaxFirings : WF_vars(RoutineStep(id))

InitLive ==
    NewScheduler(MkConfig(DefaultHours, 2, 1, 1, "fools", FALSE), "fools",
                 MkFeed(DefaultAuthors, DefaultTimes), DefaultTimeline,
                 DefaultNow)

\* The long-running program with routine goroutines that keep running.
SpecLive == InitLive /\ [][Next]_vars /\ Fairness

----------------------------------------------------------------------------
(* The Bluesky clients: what they make of the response status *)

\* CreatePost.  The internal client fails on every status but 200 and 201.
\* The social client, on a status other than 200, returns the err variable
\* of the request that has just succeeded, which is nil.
CreatePostErr(client, status) ==
    IF client = "internal"
    THEN status # 200 /\ status # 201
    ELSE LET err == FALSE
         IN IF status # 200 THEN err ELSE FALSE

\* FollowUser of the internal client: the handle is resolved (200), then
\* the follow record is created (200 or 201).
FollowUserErr(resolveStatus, createStatus) ==
    IF resolveStatus # 200
    THEN TRUE
    ELSE createStatus # 200 /\ createStatus # 201

\* LikePost of the internal client.
LikePostErr(status) == status # 200 /\ status # 201

\* GetRecentPosts of the internal client.
GetRecentPostsErr(status) == status # 200

\* The Post routine publishes through one of the clients.
PostPublishOver(id) ==
    /\ At(id, "Post", "publish")
    /\ \E client \in Clients, status \in StatusCodes :
         LET err == CreatePostErr(client, status)
         IN /\ inv' = Published(id, ~err)
            /\ wire' = Answer("CreatePost", client, <<status>>, err)
    /\ UNCHANGED <<config, agentTheme, ctxCancelled, reddit, upstream,
                   returned, signalled, lastCall, feed, timeline, now,
                   entries, cronRunning, caller, startCount, startResult,
                   nextId, history, firings, failed>>

\* One of the other destination operations is called and answered.
DestinationResponds ==
    /\ \/ \E r, c \in StatusCodes :
            wire' = Answer("FollowUser", "internal", <<r, c>>,
                           FollowUserErr(r, c))
       \/ \E st \in StatusCodes :
            wire' = Answer("LikePost", "internal", <<st>>, LikePostErr(st))
       \/ \E st \in StatusCodes :
            wire' = Answer("GetRecentPosts", "internal", <<st>>,
                           GetRecentPostsErr(st))
    /\ UNCHANGED <<config, agentTheme, ctxCancelled, reddit, upstream,
                   returned, signalled, lastCall, feed, timeline, now,
                   entries, cronRunning, caller, startCount, startResult,
                   inv, nextId, history, firings, failed>>

\* A test-mode run in which the destination's answers are looked at.
NextDestination ==
    \/ StartTest(1)
    \/ DestinationResponds
    \/ \E id \in DOMAIN inv :
         \/ TestAdvance(id)
         \/ PostQuery(id)
         \/ PostGenerate(id)
         \/ PostPublishOver(id)
         \/ FollowQuery(id)
         \/ FollowStep(id)
         \/ LikeList(id)
         \/ LikeStep(id)

InitDestination ==
    NewScheduler(MkConfig(DefaultHours, 1, 1, 1, "fools", TRUE), "fools",
                 MkFeed(DefaultAuthors, DefaultTimes), <<"p1">>, DefaultNow)

SpecDestination == InitDestination /\ [][NextDestination]_vars

----------------------------------------------------------------------------
(* The Reddit-sourced scheduler (src/unnamed/part_011): its Follow routine *)

\* The authorMap loop of that routine: first occurrence of every author
\* other than the "[deleted]" sentinel, in order.
RECURSIVE DistinctAuthorsNotDeleted(_, _, _)
DistinctAuthorsNotDeleted(posts, i, acc) ==
    IF i > Len(posts)
    THEN acc
    ELSE LET a == posts[i].Author
         IN IF a # "[deleted]" /\ \A k \in 1..Len(acc) : acc[k] # a
            THEN DistinctAuthorsNotDeleted(posts, i + 1, Append(acc, a))
            ELSE DistinctAuthorsNotDeleted(posts, i + 1, acc)

QuerySubredditCall(subreddit, ok) ==
    Call("QuerySubreddit", subreddit, 0, FollowQueryLimit, ok, "")

\* Query follow_trains; if that fails query antiwork; give up only when
\* both failed.
FollowQueryReddit(id) ==
    /\ At(id, "Follow", "query")
    /\ \E ok1, ok2 \in BOOLEAN :
         LET first == Append(inv[id].calls,
                             QuerySubredditCall("follow_trains", ok1))
             rec == [inv[id] EXCEPT !.calls =
                       IF ok1 THEN first
                       ELSE Append(first, QuerySubredditCall("antiwork", ok2))]
             authors == DistinctAuthorsNotDeleted(feed, 1, <<>>)
         IN IF ~ok1 /\ ~ok2
            THEN inv' = [inv EXCEPT ![id] = Finish(rec, "queryFailed")]
            ELSE IF Len(authors) = 0
            THEN inv' = [inv EXCEPT ![id] =
                            Finish([rec EXCEPT !.posts = feed], "noAuthors")]
            ELSE inv' = [inv EXCEPT ![id] =
                            EnterLoop([rec EXCEPT !.posts = feed], authors,
                                      config.FollowUsersPerDay, "follow")]
    /\ UNCHANGED <<config, agentTheme, ctxCancelled, reddit, wire, upstream,
                   returned, signalled, lastCall, feed, timeline, now,
                   entries, cronRunning, caller, startCount, startResult,
                   nextId, history, firings, failed>>

\* Invocations in progress other than id that have written the token.
RacingWriters(id) ==
    {j \in reddit.writers \ {id} : j \in DOMAIN inv /\ inv[j].pc # "done"}

\* What a read of accessToken by invocation id can give.  Nothing orders
\* the read after a write made by another goroutine still running, so such
\* a write may or may not be seen.
SeenTokens(id) ==
    IF RacingWriters(id) # {} THEN {0, reddit.accessToken}
    ELSE {reddit.accessToken}

\* RedditClient.ensureAuthenticated, at the head of QuerySubreddit: with a
\* token in the cache the query goes ahead, without one authenticate sends
\* its request to the token endpoint.
EnsureAuthenticated(id) ==
    /\ id \in DOMAIN inv
    /\ inv[id].routine \in {"Post", "Follow"}
    /\ inv[id].pc = "query"
    /\ id \notin reddit.readers
    /\ \E seen \in SeenTokens(id) :
         reddit' = [reddit EXCEPT
                      !.readers = @ \cup {id},
                      !.ready = IF seen # 0 THEN @ \cup {id} ELSE @,
                      !.asked = IF seen = 0 THEN @ \cup {id} ELSE @]
    /\ UNCHANGED <<config, agentTheme, ctxCancelled, wire, upstream,
                   returned, signalled, lastCall, feed, timeline, now,
                   entries, cronRunning, caller, startCount, startResult,
                   inv, nextId, history, firings, failed>>

\* RedditClient.authenticate returns: the token is stored in the client, or
\* QuerySubreddit fails with the authentication error and the routine ends.
AuthenticateReturns(id) ==
    /\ id \in DOMAIN inv
    /\ id \in reddit.asked
    /\ \/ /\ reddit' = [reddit EXCEPT !.accessToken = id,
                                       !.writers = @ \cup {id},
                                       !.asked = @ \ {id},
                                       !.ready = @ \cup {id}]
          /\ inv' = inv
       \/ /\ reddit' = [reddit EXCEPT !.asked = @ \ {id}]
          /\ inv' = [inv EXCEPT ![id] =
                      Finish([@ EXCEPT !.calls = Append(@,
                                QuerySubredditCall("", FALSE))],
                             "queryFailed")]
    /\ UNCHANGED <<config, agentTheme, ctxCancelled, wire, upstream,
                   returned, signalled, lastCall, feed, timeline, now,
                   entries, cronRunning, caller, startCount, startResult,
                   nextId, history, firings, failed>>

\* The scheduler built over the RedditClient: every source query first goes
\* through ensureAuthenticated.
NextShared ==
    \/ StartContinuous(1)
    \/ Stop
    \/ \E e \in 1..Len(entries) : Fire(e)
    \/ \E id \in DOMAIN inv :
         \/ Return(id)
         \/ EnsureAuthenticated(id)
         \/ AuthenticateReturns(id)
         \/ id \in reddit.ready /\ PostQuery(id)
         \/ PostGenerate(id)
         \/ PostPublish(id)
         \/ id \in reddit.ready /\ FollowQueryReddit(id)
         \/ FollowStep(id)
         \/ LikeList(id)
         \/ LikeStep(id)

InitShared ==
    NewScheduler(MkConfig(DefaultHours, 1, 1, 1, "fools", FALSE), "fools",
                 MkFeed(DefaultAuthors, DefaultTimes), DefaultTimeline,
                 DefaultNow)

SpecShared == InitShared /\ [][NextShared]_vars

RedditAuthors == {<<"alice", "[deleted]", "alice">>, <<"", "bob">>,
                  <<"[deleted]">>, <<>>}

InitReddit ==
    \E authors \in RedditAuthors :
         NewScheduler(MkConfig(DefaultHours, 2, 1, 1, "fools", FALSE), "fools",
                      MkFeed(authors, Constant(Len(authors), DefaultNow - 1)),
                      DefaultTimeline, DefaultNow)

\* That scheduler has no test mode: Start registers the triggers and the
\* engine fires them.
NextReddit ==
    \/ StartContinuous(1)
    \/ Stop
    \/ \E e \in 1..Len(entries) : Fire(e)
    \/ \E id \in DOMAIN inv :
         \/ Return(id)
         \/ PostQuery(id)
         \/ PostGenerate(id)
         \/ PostPublish(id)
         \/ FollowQueryReddit(id)
         \/ FollowStep(id)
         \/ LikeList(id)
         \/ LikeStep(id)

SpecReddit == InitReddit /\ [][NextReddit]_vars

----------------------------------------------------------------------------
(* GeminiGenerator.GeneratePost: what becomes of the service's text *)

MaxOf(S) == CHOOSE x \in S : \A y \in S : y <= x

\* TruncateForSocialMedia: cut at maxChars, then back up to the last space
\* of the cut, if there is one, and append "...".
TruncateForSocialMedia(content, maxChars) ==
    IF content.len <= maxChars
    THEN content
    ELSE LET sp == {i \in content.spaces : i < maxChars}
         IN IF sp # {}
            THEN [len |-> MaxOf(sp) + EllipsisLen,
                  spaces |-> {j \in sp : j < MaxOf(sp)}, tail |-> "..."]
            ELSE [len |-> maxChars + EllipsisLen, spaces |-> sp, tail |-> "..."]

\* The tail of GeneratePost: an empty text is an error; a text longer than
\* the threshold is truncated to the platform limit.
GeneratedText(text) ==
    IF text.len = 0
    THEN NoText
    ELSE IF text.len > TruncateThreshold
    THEN TruncateForSocialMedia(text, PlatformLimit)
    ELSE text

\* The generation service answers with some text.
UpstreamResponds ==
    /\ upstream = NoText
    /\ upstream' \in TextSamples
    /\ UNCHANGED <<config, agentTheme, ctxCancelled, reddit, wire, signalled,
                   lastCall, feed, timeline, now, entries, cronRunning,
                   caller, startCount, startResult, inv, nextId, history,
                   firings, failed, returned>>

\* GeneratePost returns.
GeneratePostReturns ==
    /\ upstream # NoText
    /\ returned = NoText
    /\ returned' = GeneratedText(upstream)
    /\ UNCHANGED <<config, agentTheme, ctxCancelled, reddit, wire, signalled,
                   lastCall, feed, timeline, now, entries, cronRunning,
                   caller, startCount, startResult, inv, nextId, history,
                   firings, failed, upstream>>

NextGenerate ==
    \/ UpstreamResponds
    \/ GeneratePostReturns

\* One call of the generator, for every sampled answer of the service.
SpecGenerate == InitLive /\ [][NextGenerate]_vars

----------------------------------------------------------------------------
(* The program around the scheduler *)

\* The operating system delivers SIGINT or SIGTERM; sigChan, registered
\* before Start is called, holds it until main receives.
Signal ==
    /\ caller # "exited"
    /\ ~signalled
    /\ signalled' = TRUE
    /\ UNCHANGED <<config, agentTheme, ctxCancelled, reddit, wire, upstream,
                   returned, lastCall, feed, timeline, now, entries,
                   cronRunning, caller, startCount, startResult, inv, nextId,
                   history, firings, failed>>

\* main, after Start returned nil: receive from sigChan, then call Stop.
MainStop ==
    /\ lastCall = "Start"
    /\ startResult = "nil"
    /\ signalled
    /\ Stop

\* main returns after Stop: the process exits with status 0.
MainExit ==
    /\ caller = "idle"
    /\ lastCall = "Stop"
    /\ caller' = "exited"
    /\ UNCHANGED <<config, agentTheme, ctxCancelled, reddit, wire, upstream,
                   returned, signalled, lastCall, feed, timeline, now,
                   entries, cronRunning, startCount, startResult, inv,
                   nextId, history, firings, failed>>

InitMain ==
    \E theme \in Themes, clock \in NowChoices :
         NewScheduler(MkConfig(DefaultHours, 2, 1, 1, theme, TRUE), theme,
                      MkFeed(DefaultAuthors, DefaultTimes), DefaultTimeline,
                      clock)

\* The whole program run with -test-mode: main calls Start, which runs the
\* routines, then waits for a signal, calls Stop and returns.
NextMain ==
    \/ StartTest(1)
    \/ Signal
    \/ MainStop
    \/ MainExit
    \/ \E id \in DOMAIN inv :
         \/ TestAdvance(id)
         \/ PostQuery(id)
         \/ PostGenerate(id)
         \/ PostPublish(id)
         \/ FollowQuery(id)
         \/ FollowStep(id)
         \/ LikeList(id)
         \/ LikeStep(id)

SpecMain == InitMain /\ [][NextMain]_vars

\* Registration alone: main calls Start once and later Stop; the triggers are
\* looked at as registered, before any comes due.
NextRegister ==
    \/ StartSampled(1)
    \/ Stop

SpecRegister == InitContinuous /\ [][NextRegister]_vars

\* The caller cancels the context it handed to Start (main defers cancel).
CancelContext ==
    /\ startCount >= 1
    /\ ~ctxCancelled
    /\ ctxCancelled' = TRUE
    /\ UNCHANGED <<config, agentTheme, reddit, wire, upstream, returned,
                   signalled, lastCall, feed, timeline, now, entries,
                   cronRunning, caller, startCount, startResult, inv, nextId,
                   history, firings, failed>>

\* The long-running program whose caller may cancel the Start context at any
\* time.
NextCancel ==
    \/ StartContinuous(1)
    \/ CancelContext
    \/ Stop
    \/ \E e \in 1..Len(entries) : Fire(e)
    \/ \E id \in DOMAIN inv :
         \/ Return(id)
         \/ PostQuery(id)
         \/ PostGenerate(id)
         \/ PostPublish(id)
         \/ FollowQuery(id)
         \/ FollowStep(id)
         \/ LikeList(id)
         \/ LikeStep(id)

SpecCancel == InitLive /\ [][NextCancel]_vars

\* The program in either mode: the flag decides which Start runs, and the
\* engine fires whatever triggers a running engine holds.
InitModes == InitMain \/ InitLive

NextModes ==
    \/ StartTest(1)
    \/ StartContinuous(1)
    \/ Stop
    \/ \E e \in 1..Len(entries) : Fire(e)
    \/ \E id \in DOMAIN inv :
         \/ TestAdvance(id)
         \/ Return(id)
         \/ PostQuery(id)
         \/ PostGenerate(id)
         \/ PostPublish(id)
         \/ FollowQuery(id)
         \/ FollowStep(id)
         \/ LikeList(id)
         \/ LikeStep(id)

SpecModes == InitModes /\ [][NextModes]_vars

\* A caller that calls Start again on the same scheduler, with or without a
\* Stop in between; the triggers are looked at as registered.
MaxStarts == 3

NextRestart ==
    \/ StartContinuous(MaxStarts)
    \/ Stop

SpecRestart == InitContinuous /\ [][NextRestart]_vars

----------------------------------------------------------------------------
(* Properties *)

Running(routine) == {id \in DOMAIN inv : inv[id].routine = routine}

CallsOf(rec, op) == {k \in 1..Len(rec.calls) : rec.calls[k].op = op}

Count(es, activity, hour) ==
    Cardinality({k \in 1..Len(es) :
                    es[k].activity = activity /\ es[k].hour = hour})

CountActivity(es, activity) ==
    Cardinality({k \in 1..Len(es) : es[k].activity = activity})

Occurrences(hours, hour) ==
    Cardinality({k \in 1..Len(hours) : hours[k] = hour})

\* Identifiers of the served posts created strictly after now minus
\* MaxContentAgeDays days.
EligibleIDs ==
    {feed[k].ID : k \in {j \in 1..Len(feed) :
        feed[j].CreatedAt > now - config.MaxContentAgeDays * DayLen}}

\* C1: in test mode Start runs the Post routine, then the Follow routine, then
\* the Like routine, each exactly once per call and each ending before the
\* next begins, and then returns nil whatever the routines logged.
C1_TestModeRunsInOrder ==
    /\ \A k \in 1..Len(history) :
         /\ history[k].ev = IF k % 2 = 1 THEN "begin" ELSE "end"
         /\ history[k].routine =
              <<"Post", "Follow", "Like">>[(((k - 1) \div 2) % 3) + 1]
    /\ startResult # "err"
    /\ caller = "idle" =>
         /\ Len(history) = 6 * startCount
         /\ inv = <<>>
         /\ startCount > 0 => startResult = "nil"
    /\ caller = "inStart" =>
         /\ Len(history) < 6 * startCount
         /\ Len(history) % 2 = 1
         /\ Cardinality(DOMAIN inv) = 1
         /\ \A id \in DOMAIN inv :
              inv[id].routine = history[Len(history)].routine

C1_Witness ==
    /\ caller = "idle"
    /\ startResult = "nil"
    /\ Len(history) = 6
    /\ history[2].outcome = "error"
    /\ history[4].outcome = "error"
    /\ history[6].outcome = "error"

\* C2: after one successful continuous-mode Start the job table holds one Post
\* trigger per configured posting hour at that hour, one Follow trigger, one
\* Like trigger and nothing else; no step other than a Start changes the table.
C2_TableMatchesConfig ==
    /\ [](startCount = 1 /\ startResult = "nil" =>
            /\ Len(entries) = Len(config.PostingHours) + 2
            /\ \A h \in -1..25 :
                 Count(entries, "Post", h) = Occurrences(config.PostingHours, h)
            /\ CountActivity(entries, "Post") = Len(config.PostingHours)
            /\ CountActivity(entries, "Follow") = 1
            /\ CountActivity(entries, "Like") = 1)
    /\ [][startCount' = startCount => entries' = entries]_vars

C2_Witness ==
    /\ startCount = 1
    /\ startResult = "nil"
    /\ Len(config.PostingHours) = 2
    /\ firings = MaxFirings
    /\ failed # {}
    /\ inv = <<>>

\* C3: when a registration fails Start returns the error, the engine is not
\* started and no routine is ever invoked, although the triggers registered
\* before the failing one stay in the table.
C3_StartFailsClosed ==
    /\ (startCount > 0 /\ \E k \in 1..Len(config.PostingHours) :
            config.PostingHours[k] \notin 0..23) => startResult = "err"
    /\ startResult = "err" =>
         /\ ~cronRunning
         /\ firings = 0
         /\ inv = <<>>

C3_Witness ==
    /\ startResult = "err"
    /\ startCount = 1
    /\ Len(entries) = 1
    /\ \A k \in 1..Len(entries) : entries[k].activity = "Post"

\* C4: Stop leaves the engine stopped, and while it is stopped (until a later
\* Start) no trigger starts a routine.
C4_NoFiringAfterStop ==
    [][/\ Stop => ~cronRunning'
       /\ (~cronRunning /\ startCount' = startCount) =>
            (firings' = firings /\ ~cronRunning' /\
             DOMAIN inv' \subseteq DOMAIN inv)]_vars

C4_Witness ==
    /\ ~cronRunning
    /\ startResult = "nil"
    /\ Len(entries) >= 3
    /\ firings = 1
    /\ Cardinality(DOMAIN inv) = 1

\* C5: a routine step or a routine's return, failed or not, leaves the job
\* table and the running engine as they were, so every registered trigger,
\* the failed one included, can fire again.
C5_FailuresLeaveScheduleIntact ==
    /\ [][inv' # inv => (entries' = entries /\ cronRunning' = cronRunning)]_vars
    /\ [](\A id \in DOMAIN inv :
            inv[id].origin = "cron" =>
              /\ inv[id].entry \in 1..Len(entries)
              /\ entries[inv[id].entry].activity = inv[id].routine)
    /\ []((cronRunning /\ firings < MaxFirings) =>
            \A e \in failed :
              (\A id \in DOMAIN inv : inv[id].entry # e) => ENABLED Fire(e))

C5_Witness ==
    /\ cronRunning
    /\ \E id \in DOMAIN inv :
         /\ inv[id].origin = "cron"
         /\ inv[id].entry \in inv[id].after
         /\ inv[id].outcome \in {"queryFailed", "generateFailed",
                                 "publishFailed", "listFailed"}

\* C6: while a routine invocation is in progress, blocked in a collaborator
\* call, every trigger of the running engine can still start its routine.
C6_IndependentDispatch ==
    (/\ cronRunning
     /\ firings < MaxFirings
     /\ \E id \in DOMAIN inv : inv[id].pc # "done")
    => \A e \in 1..Len(entries) :
         (\A id \in DOMAIN inv : inv[id].entry # e) => ENABLED Fire(e)

C6_Witness ==
    \E i \in Running("Post"), j \in Running("Follow") \cup Running("Like") :
       /\ inv[i].pc = "generate"
       /\ i < j
       /\ inv[j].pc \in {"follow", "like"}

\* C7: the Post routine keeps exactly the candidates created strictly after
\* now minus MaxContentAgeDays days, and the candidate handed to the generator
\* is one of them.
C7_AgeFilter ==
    \A id \in Running("Post") :
      LET rec == inv[id] IN
      /\ rec.pc \in {"generate", "publish"} \/ rec.outcome = "noRecent" =>
           /\ {rec.recent[k].ID : k \in 1..Len(rec.recent)} = EligibleIDs
           /\ Len(rec.recent) = Cardinality(EligibleIDs)
      /\ rec.outcome = "noRecent" <=>
           (rec.pc = "done" /\ rec.calls[1].ok /\ Len(feed) > 0
              /\ EligibleIDs = {})
      /\ \A k \in CallsOf(rec, "GeneratePost") :
           /\ rec.calls[k].post \in EligibleIDs
           /\ rec.calls[k].post = rec.selected.ID
           /\ rec.selected.CreatedAt > now - config.MaxContentAgeDays * DayLen

C7_Witness ==
    \E id \in Running("Post") :
       /\ inv[id].pc = "publish"
       /\ Len(inv[id].posts) = 5
       /\ Len(inv[id].recent) = 3
       /\ \E k \in 1..5 : inv[id].posts[k].CreatedAt =
                            now - config.MaxContentAgeDays * DayLen
       /\ \E k \in 1..5 : inv[id].posts[k].CreatedAt <
                            now - config.MaxContentAgeDays * DayLen

\* C8: a Post firing stops at its first failure: no generator call and no
\* CreatePost call after a failed or empty or all-stale source query, no
\* CreatePost call after a failed generation, at most one CreatePost call, and
\* the routine ends without a panic.
C8_PostAbortsOnFirstFailure ==
    \A id \in Running("Post") :
      LET rec == inv[id]
          query == CallsOf(rec, "QueryWorkRantTweets")
          gen == CallsOf(rec, "GeneratePost")
          pub == CallsOf(rec, "CreatePost")
      IN
      /\ ((\E k \in query : ~rec.calls[k].ok) \/ Len(feed) = 0
            \/ EligibleIDs = {}) => (gen = {} /\ pub = {})
      /\ (\E k \in gen : ~rec.calls[k].ok) => pub = {}
      /\ Cardinality(pub) <= 1
      /\ Cardinality(gen) <= 1
      /\ Cardinality(query) <= 1
      /\ rec.outcome # "panic"
      /\ (\E k \in 1..Len(rec.calls) : ~rec.calls[k].ok) =>
           (rec.pc = "done" /\ ~rec.calls[Len(rec.calls)].ok)

C8_Witness ==
    \E id \in Running("Post") :
       /\ inv[id].pc = "done"
       /\ inv[id].outcome = "generateFailed"
       /\ Len(inv[id].calls) = 2
       /\ inv[id].origin = "test"

\* C9: a Post firing that publishes made exactly one generator call, with an
\* eligible candidate and the configured theme, and exactly one CreatePost
\* call, with the text the generator returned.
C9_PostPublishesGeneratedText ==
    \A id \in Running("Post") :
      LET rec == inv[id] IN
      rec.outcome = "posted" =>
        /\ Len(rec.calls) = 3
        /\ rec.calls[1].op = "QueryWorkRantTweets"
        /\ rec.calls[2].op = "GeneratePost"
        /\ rec.calls[2].ok
        /\ rec.calls[2].post \in EligibleIDs
        /\ rec.calls[2].arg = config.PostContentTheme
        /\ rec.calls[3].op = "CreatePost"
        /\ rec.calls[3].ok
        /\ rec.calls[3].arg = rec.calls[2].ret
        /\ rec.calls[3].arg \in Texts

C9_Witness ==
    \E id \in Running("Post") :
       /\ inv[id].outcome = "posted"
       /\ config.PostContentTheme = "mondays"
       /\ inv[id].calls[3].arg = "T2"
       /\ Cardinality(EligibleIDs) = 1

\* C10: within one Follow firing no author is passed to FollowUser twice.
C10_NoAuthorFollowedTwice ==
    \A id \in Running("Follow") :
      \A k, m \in CallsOf(inv[id], "FollowUser") :
         k # m => inv[id].calls[k].arg # inv[id].calls[m].arg

C10_Witness ==
    \E id \in Running("Follow") :
       /\ inv[id].pc = "done"
       /\ Cardinality(CallsOf(inv[id], "FollowUser")) = 2
       /\ Len(feed) = 3
       /\ feed[1].Author = feed[3].Author

\* The smaller of two integers.
Min(a, b) == IF a < b THEN a ELSE b

\* The distinct non-empty author names among the served candidates.
ValidAuthors == {feed[k].Author : k \in 1..Len(feed)} \ {""}

OccursIn(q, x) == Cardinality({k \in 1..Len(q) : q[k] = x})

\* How often x was the argument of an op call of the invocation rec.
Attempts(rec, op, x) ==
    Cardinality({k \in CallsOf(rec, op) : rec.calls[k].arg = x})

\* C12: in the Follow and Like loops a failed call does not end the loop: the
\* routine makes one call per iteration up to the clamped count whatever the
\* earlier outcomes were, every item it drew is attempted exactly once (drawn
\* items and remaining pool together are the original candidates), and it
\* then returns normally.
C12_LoopContinuesAfterFailure ==
    \A id \in Running("Follow") \cup Running("Like") :
      LET rec == inv[id]
          op == IF rec.routine = "Follow" THEN "FollowUser" ELSE "LikePost"
          made == Cardinality(CallsOf(rec, op))
      IN /\ rec.pc \in {"follow", "like"} =>
              /\ made = rec.i
              /\ rec.i < rec.count
         /\ made > 0 =>
              /\ rec.pc = "done" <=> made = rec.count
              /\ rec.pc = "done" => rec.outcome = "completed"
              /\ \A x \in ValidAuthors :
                   rec.routine = "Follow" =>
                     Attempts(rec, op, x) + OccursIn(rec.pool, x) = 1
              /\ \A x \in PostIDs :
                   rec.routine = "Like" =>
                     Attempts(rec, op, x) + OccursIn(rec.pool, x) =
                       OccursIn(timeline, x)

C12_Witness ==
    \E id \in Running("Like") :
       /\ inv[id].pc = "done"
       /\ inv[id].outcome = "completed"
       /\ Cardinality(CallsOf(inv[id], "LikePost")) = 2
       /\ \A k \in CallsOf(inv[id], "LikePost") : ~inv[id].calls[k].ok
       /\ timeline = <<"p1", "p2">>

\* C13: a Like firing whose listing returned n >= 1 identifiers makes, for a
\* non-negative LikePostsPerDay, exactly min(LikePostsPerDay, n) LikePost
\* calls, and no identifier is passed to LikePost twice.  The second part
\* fails when the listing repeats an identifier: the loop draws positions
\* of the list without replacement and never compares identifiers.
C13_LikesAreDistinct ==
    \A id \in Running("Like") :
      LET rec == inv[id]
          likes == CallsOf(rec, "LikePost")
      IN (rec.calls # <<>> /\ rec.calls[1].ok /\ Len(timeline) >= 1
            /\ config.LikePostsPerDay >= 0) =>
           /\ rec.pc = "done" =>
                Cardinality(likes) = Min(config.LikePostsPerDay, Len(timeline))
           /\ \A k, m \in likes :
                k # m => rec.calls[k].arg # rec.calls[m].arg

\* C14: with LikePostsPerDay = 0 a Like firing makes no LikePost call and no
\* GetRecentPosts call and does not end by logging an error.  The routine
\* lists the timeline before it looks at the count, so the second and third
\* parts fail.
C14_ZeroLikesMakesNoCalls ==
    config.LikePostsPerDay = 0 =>
      \A id \in Running("Like") :
         /\ CallsOf(inv[id], "LikePost") = {}
         /\ CallsOf(inv[id], "GetRecentPosts") = {}
         /\ inv[id].pc = "done" => Status(inv[id].outcome) = "ok"

\* C15: every trigger a continuous-mode Start registers has a minute in
\* [0,60) and an hour in [0,24); the Follow trigger's hour lies in [9,18] and
\* the Like trigger's in [10,18]; with valid posting hours no draw makes a
\* registration fail.
C15_TriggerTimesInRange ==
    /\ \A k \in 1..Len(entries) :
         /\ entries[k].minute \in 0..59
         /\ entries[k].hour \in 0..23
         /\ entries[k].activity = "Follow" => entries[k].hour \in 9..18
         /\ entries[k].activity = "Like" => entries[k].hour \in 10..18
    /\ (startCount > 0 /\ \A k \in 1..Len(config.PostingHours) :
            config.PostingHours[k] \in 0..23) =>
         /\ startResult = "nil"
         /\ CountActivity(entries, "Follow") = 1
         /\ CountActivity(entries, "Like") = 1

C15_Witness ==
    /\ startResult = "nil"
    /\ \E k \in 1..Len(entries) :
         entries[k] = [activity |-> "Follow", minute |-> 59, hour |-> 18]
    /\ \E k \in 1..Len(entries) :
         entries[k] = [activity |-> "Like", minute |-> 59, hour |-> 13]
    /\ \E k \in 1..Len(entries) :
         entries[k] = [activity |-> "Post", minute |-> 59, hour |-> 18]

\* What a Stop call could disturb: the engine, its table, the routines in
\* progress and what Start returned.
SchedulerState ==
    <<entries, cronRunning, caller, startCount, startResult, inv, nextId,
      history, firings, failed>>

\* C16: Stop can be called whenever the caller is not inside Start (on a
\* scheduler never started, one that ran only in test mode, one already
\* stopped) and returns without blocking; it leaves the engine stopped and
\* changes nothing else, and a Stop that follows a Stop changes nothing.
C16_StopIsIdempotent ==
    /\ [](caller = "idle" => ENABLED Stop)
    /\ [][(lastCall' # lastCall /\ lastCall' \in {"Stop", "StopAgain"}) =>
            /\ ~cronRunning'
            /\ <<entries, caller, startCount, startResult, inv, nextId,
                 history, firings, failed>>' =
               <<entries, caller, startCount, startResult, inv, nextId,
                 history, firings, failed>>
            /\ ~cronRunning => SchedulerState' = SchedulerState
            /\ lastCall' = "StopAgain" => SchedulerState' = SchedulerState]_vars

C16_Witness ==
    /\ lastCall = "StopAgain"
    /\ config.TestMode
    /\ startResult = "nil"
    /\ Len(history) = 6
    /\ ~cronRunning

Stopped == lastCall \in {"Stop", "StopAgain"}

WaitingForSignal ==
    /\ caller = "idle"
    /\ lastCall = "Start"
    /\ startResult = "nil"
    /\ ~signalled

\* C18: started with -test-mode, the program runs the three routines on the
\* calling thread and then exits by itself: it is never left waiting for a
\* shutdown signal, and it has not needed one when it has exited.  main
\* waits on sigChan after every successful Start, so this fails.
C18_TestModeExitsOnItsOwn ==
    config.TestMode =>
      /\ ~WaitingForSignal
      /\ caller = "exited" => ~signalled

\* C19: the text the generator returns is at most PlatformLimit long: a
\* service text within the limit comes back unchanged, a longer one comes back
\* cut, ending in the ellipsis marker.  The generator only cuts texts longer
\* than TruncateThreshold, and a cut text can be up to EllipsisLen longer than
\* the limit, so this fails.
C19_ReturnedTextWithinLimit ==
    returned # NoText =>
      /\ returned.len <= PlatformLimit
      /\ upstream.len <= PlatformLimit => returned = upstream
      /\ upstream.len > PlatformLimit => returned.tail = "..."

\* Statuses that some destination operation could count as success.
SuccessStatuses == 200..299

\* C20: a destination operation whose response status is outside the
\* success range returns an error, and a Post firing whose CreatePost got
\* such a status does not end with "successfully posted".  CreatePost of the
\* social client returns a nil error on such a status, so this fails.
C20_NonSuccessIsAnError ==
    (wire # NoAnswer /\
     \E k \in 1..Len(wire.status) : wire.status[k] \notin SuccessStatuses) =>
       /\ wire.err
       /\ wire.op = "CreatePost" =>
            \A id \in Running("Post") : inv[id].outcome # "posted"

\* Author values that name nobody: the sentinel of a removed account, and
\* what QueryWorkRantTweets puts in for an author it cannot resolve.
PlaceholderAuthors == {"[deleted]", "unknown"}

\* C21: the Follow routine never passes an empty or a placeholder author to
\* FollowUser.  The routine skips only the empty author, so the "unknown"
\* that the source substitutes for an unresolved author is followed and this
\* fails.
C21_NoPlaceholderFollowed ==
    \A id \in Running("Follow") :
      \A k \in CallsOf(inv[id], "FollowUser") :
         /\ inv[id].calls[k].arg # ""
         /\ inv[id].calls[k].arg \notin PlaceholderAuthors

\* C22: the minute of every registered Post trigger lies in [0,59), that is
\* in 0..58, and the table of a started scheduler holds the minutes its
\* Start drew.  Start draws rand.Intn(60), which can be 59, so this fails.
C22_PostMinuteBelow59 ==
    \A k \in 1..Len(entries) :
       entries[k].activity = "Post" =>
         entries[k].minute \in 0..(MinutesPerHour - 2)

\* C23: in a Follow or Like firing a pacing delay separates every two
\* consecutive follow (like) calls, whether the earlier one succeeded or
\* failed, and no delay follows the last call of the firing.  The loop skips
\* the delay after a failed call and sleeps after every successful one, the
\* last included, so this fails.
C23_DelayBetweenCallsOnly ==
    \A id \in Running("Follow") \cup Running("Like") :
      LET rec == inv[id]
          op == IF rec.routine = "Follow" THEN "FollowUser" ELSE "LikePost"
          made == CallsOf(rec, op)
      IN /\ \A k, m \in made :
              k < m => \E d \in (k + 1)..(m - 1) : rec.calls[d].op = "Sleep"
         /\ (rec.pc = "done" /\ made # {}) =>
              rec.calls[Len(rec.calls)].op # "Sleep"

\* The calls of the invocation rec that fetch the list it works on.
Fetches(rec) ==
    CallsOf(rec, "QueryWorkRantTweets") \cup CallsOf(rec, "QuerySubreddit")
      \cup CallsOf(rec, "GetRecentPosts")

\* C24: no routine retries: a firing fetches its list at most once, and a
\* failed fetch ends the firing at once with no follow, like, generate or
\* publish call.  The Follow routine of the Reddit-sourced scheduler queries
\* a second subreddit when the first query failed and carries on with its
\* result, so this fails there; it holds of the routines of
\* src/internal/scheduler.go.
C24_NoRetry ==
    \A id \in DOMAIN inv :
      LET rec == inv[id] IN
      /\ Cardinality(Fetches(rec)) <= 1
      /\ (\E k \in Fetches(rec) : ~rec.calls[k].ok) =>
           /\ rec.pc = "done"
           /\ Len(rec.calls) = 1

\* The day an instant falls in, and the first instant of that day.
DayOf(t) == t \div DayLen

StartOfDay(t) == DayOf(t) * DayLen

\* C25: with MaxContentAgeDays = 0 and every candidate dated today, the Post
\* routine keeps exactly the candidates created strictly after the start of
\* the current day, so a candidate created earlier today is kept.  The cutoff
\* the routine computes is the present instant, not midnight, so a candidate
\* created earlier today is dropped and this fails.
C25_CutoffIsStartOfDay ==
    (/\ config.MaxContentAgeDays = 0
     /\ \A k \in 1..Len(feed) : DayOf(feed[k].CreatedAt) = DayOf(now)) =>
      \A id \in Running("Post") :
        LET rec == inv[id] IN
        (rec.pc # "query" /\ rec.calls[1].ok) =>
          {rec.recent[k].ID : k \in 1..Len(rec.recent)} =
            {feed[k].ID : k \in {j \in 1..Len(feed) :
                feed[j].CreatedAt > StartOfDay(now)}}

\* C26: however often Start has been called, the job table of a started
\* scheduler holds one Post trigger per configured posting hour, one Follow
\* trigger and one Like trigger.  Every Start registers its triggers anew,
\* with fresh draws, beside those already in the table, so this fails at
\* the second Start.
C26_RestartKeepsOneTriggerEach ==
    (startCount >= 1 /\ startResult = "nil") =>
      /\ Len(entries) = Len(config.PostingHours) + 2
      /\ \A h \in 0..(HoursPerDay - 1) :
           Count(entries, "Post", h) = Occurrences(config.PostingHours, h)
      /\ CountActivity(entries, "Follow") = 1
      /\ CountActivity(entries, "Like") = 1

\* Invocations in progress.
InProgress == {id \in DOMAIN inv : inv[id].pc # "done"}

\* C27: routine invocations running at the same time share no mutable
\* state: nothing one of them has written, the fields of the shared clients
\* included, is read or written by another.  The RedditClient caches its
\* access token in a field that every QuerySubreddit call reads and, without
\* a token, writes, with no lock, so a Post and a Follow invocation fired
\* together both use it and this fails.
C27_NoSharedMutableState ==
    \A i, j \in InProgress :
       i # j => ~(i \in reddit.writers /\
                  j \in reddit.readers \cup reddit.writers)

\* C28: in test mode Start registers no trigger and does not start the
\* engine: the table stays empty, the engine stays stopped, no trigger can
\* fire, every routine invocation is one Start made itself, and once Start
\* has returned no routine begins any more.
C28_TestModeBypassesEngine ==
    /\ [](config.TestMode =>
            /\ entries = <<>>
            /\ ~cronRunning
            /\ firings = 0
            /\ \A id \in DOMAIN inv : inv[id].origin = "test"
            /\ \A e \in 1..(Len(config.PostingHours) + 2) : ~ENABLED Fire(e))
    /\ [][(config.TestMode /\ startCount >= 1 /\ caller = "idle") =>
            (inv' = <<>> /\ history' = history /\ nextId' = nextId)]_vars

C28_Witness ==
    /\ config.TestMode
    /\ caller = "idle"
    /\ startResult = "nil"
    /\ Len(history) = 6
    /\ Stopped
    /\ entries = <<>>

\* C29: no routine draws from an empty list.  A Follow or Like invocation
\* about to draw holds a pool of at least one element, as many as it still
\* has calls to make or more, and every index rand.Intn can return lies in
\* the pool; a Post invocation that went past its draw had a non-empty
\* eligible list and selected one of its elements; and no invocation ends in
\* a panic, whatever the configured counts and the collaborators' answers.
C29_NoDrawFromEmptyPool ==
    \A id \in DOMAIN inv :
      LET rec == inv[id] IN
      /\ rec.outcome # "panic"
      /\ rec.pc \in {"follow", "like"} =>
           /\ Len(rec.pool) >= 1
           /\ Len(rec.pool) >= rec.count - rec.i
           /\ rec.count - rec.i >= 1
           /\ Intn(Len(rec.pool)) # {}
           /\ \A idx \in Intn(Len(rec.pool)) : idx + 1 \in DOMAIN rec.pool
      /\ (rec.routine = "Post" /\ rec.pc \in {"generate", "publish"}) =>
           /\ Len(rec.recent) >= 1
           /\ \E k \in DOMAIN rec.recent : rec.recent[k] = rec.selected
      /\ (rec.routine \in {"Follow", "Like"} /\ rec.pc = "done"
            /\ rec.outcome = "completed") =>
           rec.i = (IF rec.count > 0 THEN rec.count ELSE 0)

\* A Follow firing configured for more follows than there are authors has
\* drawn the pool down to nothing and stopped.
C29_Witness ==
    \E id \in Running("Follow") :
       /\ config.FollowUsersPerDay = 5
       /\ inv[id].pc = "done"
       /\ inv[id].outcome = "completed"
       /\ inv[id].pool = <<>>
       /\ inv[id].count = 3
       /\ Cardinality(CallsOf(inv[id], "FollowUser")) = 3

\* Invocation id stands at its generator call and that call can succeed.
CanGenerate(id) ==
    ENABLED (PostGenerate(id) /\ inv'[id].pc = "publish")

\* C30: in continuous mode the context handed to Start has no effect on
\* the firings.  Every fired routine runs with the background context;
\* cancelling the Start context changes nothing of the engine, its table or
\* the routines in progress; after the cancellation every trigger of the
\* running engine can still fire and a routine in progress can still
\* complete its context-bound call; and the engine only ever stops by Stop.
C30_StartContextHasNoEffect ==
    /\ [](\A id \in DOMAIN inv :
            inv[id].origin = "cron" => inv[id].ctx = "background")
    /\ [][ctxCancelled' # ctxCancelled =>
            <<entries, cronRunning, inv, nextId, firings, failed,
              startResult, lastCall>>' =
            <<entries, cronRunning, inv, nextId, firings, failed,
              startResult, lastCall>>]_vars
    /\ []((ctxCancelled /\ cronRunning /\ firings < MaxFirings) =>
            \A e \in 1..Len(entries) :
              (\A id \in DOMAIN inv : inv[id].entry # e) => ENABLED Fire(e))
    /\ [](\A id \in DOMAIN inv :
            (ctxCancelled /\ inv[id].routine = "Post"
               /\ inv[id].pc = "generate") => CanGenerate(id))
    /\ [][(cronRunning /\ ~cronRunning') =>
            (lastCall' = "Stop" /\ lastCall = "Start")]_vars

\* The Start context is cancelled and the engine still runs: a fired Post
\* routine has published and a Follow routine is inside its loop.
C30_Witness ==
    /\ ctxCancelled
    /\ cronRunning
    /\ \E id \in Running("Post") :
         /\ inv[id].outcome = "posted"
         /\ inv[id].ctx = "background"
    /\ \E id \in Running("Follow") : inv[id].pc = "follow"

====
